---- MODULE Spec2Model ----
(***************************************************************************)
(* Model of scripts/tw_news_tracker.py: the headline filter, the per-stock *)
(* Google News fetch loop, the TWSE revenue merge, the report renderer and *)
(* the orchestrator main().                                                *)
(*                                                                         *)
(* Text is a sequence of glyphs.  TLC strings are ASCII, so every CJK      *)
(* glyph of the source is written as its pinyin syllable (with the tone    *)
(* digit where two glyphs of the source share a syllable); a Latin letter  *)
(* or a digit stands for itself.                                           *)
(***************************************************************************)
EXTENDS Integers, Sequences, FiniteSets, TLC

VARIABLES
    pc,           \* position of main(): start, revenue, news, done, aborted
    exc,          \* the exception that aborted main(), "none" otherwise
    now,          \* the wall clock: hours since the epoch, UTC
    config,       \* the file config/tw_stocks.json: missing, invalid or a list
    stocks,       \* main: stocks
    report_date,  \* main: report_date, a datetime
    data,         \* _fetch_twse_monthly_revenue: data = r.json()
    revenue_map,  \* main: revenue_map
    all_news,     \* main: all_news
    si,           \* main: position of the for loop over stocks
    fetched,      \* history: per attempted stock, the outcome of its fetch
    netlog,       \* history: the HTTP requests issued by this run, in order
    reports,      \* the files reports/YYYY-MM-DD.md, by date
    index,        \* the file index.md
    stock_code,   \* _fetch_google_news_for_stock: stock_code
    stock_name,   \* _fetch_google_news_for_stock: stock_name
    feed,         \* _fetch_google_news_for_stock: root.findall(".//item")
    idx,          \* _fetch_google_news_for_stock: position of the for loop
    items,        \* _fetch_google_news_for_stock: items
    cutoff,       \* _fetch_google_news_for_stock: cutoff
    resolved,     \* history: positions of the feed whose link was resolved
    fpc,          \* position of the fetch: idle, call, loop, returned, raised
    title,        \* _title_passes_filters: title
    passed        \* _title_passes_filters: the returned value, "unset" before

vars == <<pc, exc, now, config, stocks, report_date, data, revenue_map, all_news, si,
          fetched, netlog, reports, index, stock_code, stock_name, feed, idx,
          items, cutoff, resolved, fpc, title, passed>>

mainVars == <<pc, exc, now, config, stocks, report_date, data, revenue_map, all_news,
              si, fetched, netlog, reports, index>>

fetchVars == <<stock_code, stock_name, feed, idx, items, cutoff, resolved, fpc>>

filterVars == <<title, passed>>

-----------------------------------------------------------------------------
(* Settings *)

TZ_TAIPEI == 8

DAYS_LOOKBACK == 7

NEWS_PER_STOCK == 3

\* "cai bao", "ying shou", "fa shuo hui", "EPS"
INCLUDE_KEYWORDS ==
    << <<"cai", "bao">>, <<"ying", "shou">>, <<"fa", "shuo", "hui">>,
       <<"E", "P", "S">> >>

EXCLUDE_KEYWORDS ==
    << <<"ji4", "shu", "fen", "xi">>, <<"K", "xian">>, <<"jun", "xian">>,
       <<"chou", "ma">>, <<"dang", "chong">>, <<"biao1", "gu">>,
       <<"duan3", "xian">>, <<"bo", "duan4">>, <<"duo", "kong">>,
       <<"mu", "biao4", "jia">>, <<"cao", "zuo">>, <<"xuan", "gu">>,
       <<"pan", "zhong">>, <<"shou", "pan">>, <<"zhang", "ting">>,
       <<"die", "ting">>, <<"mai3", "dian3">>, <<"mai4", "dian3">> >>

-----------------------------------------------------------------------------
(* Text *)

Whitespace == {" ", "\t"}

Range(s) == {s[i] : i \in 1..Len(s)}

\* k in t
Contains(k, t) ==
    \E i \in 0..(Len(t) - Len(k)) : SubSeq(t, i + 1, i + Len(k)) = k

RECURSIVE LStrip(_)
LStrip(s) ==
    IF s # <<>> /\ Head(s) \in Whitespace THEN LStrip(Tail(s)) ELSE s

RECURSIVE RStrip(_)
RStrip(s) ==
    IF s # <<>> /\ s[Len(s)] \in Whitespace
    THEN RStrip(SubSeq(s, 1, Len(s) - 1))
    ELSE s

\* s.strip()
Strip(s) == RStrip(LStrip(s))

RECURSIVE Concat(_)
Concat(ss) == IF ss = <<>> THEN <<>> ELSE Head(ss) \o Concat(Tail(ss))

SeqsUpTo(S, n) == UNION {[1..k -> S] : k \in 0..n}

-----------------------------------------------------------------------------
(* _title_passes_filters *)

_title_passes_filters(ttl) ==
    LET t == Strip(ttl) IN
    IF t = <<>> THEN FALSE
    ELSE IF ~(\E i \in 1..Len(INCLUDE_KEYWORDS) : Contains(INCLUDE_KEYWORDS[i], t))
    THEN FALSE
    ELSE IF \E i \in 1..Len(EXCLUDE_KEYWORDS) : Contains(EXCLUDE_KEYWORDS[i], t)
    THEN FALSE
    ELSE TRUE

-----------------------------------------------------------------------------
(* Time.  An instant is a number of hours since the epoch; an aware         *)
(* datetime is [wall, off]: the wall-clock hours and the UTC offset, hours. *)

None == [none |-> TRUE]

HoursPerDay == 24

Aware(wall, off) == [wall |-> wall, off |-> off]

\* the instant an aware datetime denotes: what < on aware datetimes compares
Instant(dt) == dt.wall - dt.off

\* dt.astimezone(tz)
AsTimezone(dt, off) == Aware(Instant(dt) + off, off)

\* datetime.now(tz=TZ_TAIPEI)
_now_tpe(clock) == Aware(clock + TZ_TAIPEI, TZ_TAIPEI)

\* dt - timedelta(days=n)
MinusDays(dt, n) == Aware(dt.wall - n * HoursPerDay, dt.off)

\* dt.strftime("%Y-%m-%d"): the calendar day of the wall clock
StrfDate(dt) == dt.wall \div HoursPerDay

\* The text of a pubDate element: empty, not a date, or an RFC 2822 date
\* with its wall-clock hours and its zone (aware = FALSE for "-0000", which
\* parsedate_to_datetime returns as a naive datetime).
EmptyDate == [kind |-> "empty", wall |-> 0, off |-> 0, aware |-> FALSE]

GarbageDate == [kind |-> "garbage", wall |-> 0, off |-> 0, aware |-> FALSE]

Rfc2822(wall, off, aware) ==
    [kind |-> "date", wall |-> wall, off |-> off, aware |-> aware]

\* a parse that answers the epoch for a text it cannot read
_parse_pubdate_Epoch(pubdate_str) ==
    IF pubdate_str.kind = "empty" THEN None
    ELSE IF pubdate_str.kind = "garbage" THEN AsTimezone(Aware(0, 0), TZ_TAIPEI)
    ELSE LET dt == IF pubdate_str.aware
                   THEN Aware(pubdate_str.wall, pubdate_str.off)
                   ELSE Aware(pubdate_str.wall, 0)
         IN  AsTimezone(dt, TZ_TAIPEI)

_parse_pubdate(pubdate_str) ==
    IF pubdate_str.kind = "empty" THEN None
    ELSE IF pubdate_str.kind = "garbage" THEN None       \* except Exception
    ELSE LET dt == IF pubdate_str.aware
                   THEN Aware(pubdate_str.wall, pubdate_str.off)
                   ELSE Aware(pubdate_str.wall, 0)        \* replace(tzinfo=utc)
         IN  AsTimezone(dt, TZ_TAIPEI)

-----------------------------------------------------------------------------
(* _fetch_google_news_for_stock *)

Absent == <<"<absent>">>

\* _extract_text: the stripped text of an element, "" for a missing one
_extract_text(elem) == IF elem = Absent THEN <<>> ELSE Strip(elem)

\* a missing pubDate element
AbsentDate == [kind |-> "absent", wall |-> 0, off |-> 0, aware |-> FALSE]

\* _extract_text of the pubDate element: "" for a missing one
PubDateText(elem) == IF elem.kind = "absent" THEN EmptyDate ELSE elem

\* Where the network sends a Google News link.
RedirectTarget(url) ==
    IF url \in {<<"g1">>, <<"g2">>} THEN <<"a1">>
    ELSE IF url = <<"g3">> THEN <<"a3">>
    ELSE url

ResolveOutcomes == {"redirected", "nourl", "error"}

\* _resolve_final_url: r.url or url, and url on any exception
_resolve_final_url(url, outcome) ==
    IF outcome = "error" THEN url
    ELSE LET rurl == IF outcome = "nourl" THEN <<>> ELSE RedirectTarget(url)
         IN  IF rurl # <<>> THEN rurl ELSE url

NewsItem(code, name, ttl, url, published) ==
    [stock_code |-> code, stock_name |-> name, title |-> ttl, url |-> url,
     published |-> published]

\* the loop with a break one item late
LoopBody_BreakLate(code, name, cut, its, item, outcome) ==
    LET ttl       == _extract_text(item.title)
        link      == _extract_text(item.link)
        pubdate   == PubDateText(item.pubDate)
        published == _parse_pubdate(pubdate)
        skip      == [items |-> its, resolve |-> FALSE, brk |-> FALSE]
    IN  IF ~_title_passes_filters(ttl) THEN skip
        ELSE IF published # None /\ Instant(published) < Instant(cut) THEN skip
        ELSE LET final_url == IF link # <<>>
                              THEN _resolve_final_url(link, outcome)
                              ELSE <<>>
             IN  IF final_url = <<>>
                 THEN [skip EXCEPT !.resolve = (link # <<>>)]
                 ELSE LET new == Append(its, NewsItem(code, name, ttl, final_url,
                                                      published))
                      IN  [items |-> new, resolve |-> TRUE,
                           brk |-> Len(new) > NEWS_PER_STOCK]

\* One pass of the for loop over the feed's items: the new items, whether the
\* link was resolved (an HTTP request), and whether the loop breaks.
LoopBody(code, name, cut, its, item, outcome) ==
    LET ttl       == _extract_text(item.title)
        link      == _extract_text(item.link)
        pubdate   == PubDateText(item.pubDate)
        published == _parse_pubdate(pubdate)
        skip      == [items |-> its, resolve |-> FALSE, brk |-> FALSE]
    IN  IF ~_title_passes_filters(ttl) THEN skip
        ELSE IF published # None /\ Instant(published) < Instant(cut) THEN skip
        ELSE LET final_url == IF link # <<>>
                              THEN _resolve_final_url(link, outcome)
                              ELSE <<>>
             IN  IF final_url = <<>>
                 THEN [skip EXCEPT !.resolve = (link # <<>>)]
                 ELSE LET new == Append(its, NewsItem(code, name, ttl, final_url,
                                                      published))
                      IN  [items |-> new, resolve |-> TRUE,
                           brk |-> Len(new) >= NEWS_PER_STOCK]

-----------------------------------------------------------------------------
(* _fetch_twse_monthly_revenue.  A row is a function from field names to     *)
(* text; the field names are code, month_rev, mom, yoy, cum_rev and cum_yoy *)
(* for the six fields of the TWSE table that the script reads.              *)

\* row.get(key, "")
Get(row, key) == IF key \in DOMAIN row THEN row[key] ELSE <<>>

EmptyMap == [k \in {} |-> <<>>]

\* out[key] = value
Put(out, key, value) ==
    [k \in DOMAIN out \cup {key} |-> IF k = key THEN value ELSE out[k]]

\* a merge that keeps the first row of a code
RECURSIVE MergeRows_FirstWins(_, _)
MergeRows_FirstWins(out, rows) ==
    IF rows = <<>> THEN out
    ELSE LET row  == Head(rows)
             code == Strip(Get(row, "code"))
         IN  MergeRows_FirstWins(
                 IF code # <<>> /\ code \notin DOMAIN out
                 THEN Put(out, code, row) ELSE out,
                 Tail(rows))

\* lines 178-183
RECURSIVE MergeRows(_, _)
MergeRows(out, rows) ==
    IF rows = <<>> THEN out
    ELSE LET row  == Head(rows)
             code == Strip(Get(row, "code"))
         IN  MergeRows(IF code # <<>> THEN Put(out, code, row) ELSE out,
                       Tail(rows))

-----------------------------------------------------------------------------
(* _format_revenue_summary and _render_report.  A line is a sequence of     *)
(* glyphs, the fixed texts of the script each written as one glyph.         *)

RECURSIVE Join(_, _)
Join(parts, sep) ==
    IF parts = <<>> THEN <<>>
    ELSE IF Len(parts) = 1 THEN parts[1]
    ELSE parts[1] \o sep \o Join(Tail(parts), sep)

_format_revenue_summary(row) ==
    IF row = None \/ DOMAIN row = {} THEN <<"revenue: not found">>
    ELSE LET month_rev == Strip(Get(row, "month_rev"))
             mom       == Strip(Get(row, "mom"))
             yoy       == Strip(Get(row, "yoy"))
             cum_rev   == Strip(Get(row, "cum_rev"))
             cum_yoy   == Strip(Get(row, "cum_yoy"))
             parts  == (IF month_rev # <<>> THEN << <<"month ">> \o month_rev >> ELSE <<>>)
                       \o (IF mom # <<>> THEN << <<"MoM ">> \o mom \o <<"%">> >> ELSE <<>>)
                       \o (IF yoy # <<>> THEN << <<"YoY ">> \o yoy \o <<"%">> >> ELSE <<>>)
             parts2 == (IF cum_rev # <<>> THEN << <<"cum ">> \o cum_rev >> ELSE <<>>)
                       \o (IF cum_yoy # <<>> THEN << <<"cumYoY ">> \o cum_yoy \o <<"%">> >> ELSE <<>>)
             s1 == IF parts # <<>> THEN Join(parts, <<" / ">>) ELSE <<"month (no value)">>
             s2 == IF parts2 # <<>> THEN Join(parts2, <<" / ">>) ELSE <<"cum (no value)">>
         IN  <<"revenue: ">> \o s1 \o <<"; ">> \o s2

\* the lines without the trailing blank ones
RECURSIVE DropBlankTail(_)
DropBlankTail(lines) ==
    IF lines # <<>> /\ RStrip(lines[Len(lines)]) = <<>>
    THEN DropBlankTail(SubSeq(lines, 1, Len(lines) - 1))
    ELSE IF lines = <<>> THEN <<>>
    ELSE SubSeq(lines, 1, Len(lines) - 1) \o <<RStrip(lines[Len(lines)])>>

\* "\n".join(lines).rstrip() + "\n"; the lines are computed once
RStripLines(lines) == CHOOSE text \in {DropBlankTail(ls) : ls \in {lines}} : TRUE

\* the URL list built by inserting at the front
RECURSIVE UrlList_Prepend(_, _)
UrlList_Prepend(news, seen) ==
    IF news = <<>> THEN <<>>
    ELSE IF Head(news).url \notin seen
    THEN UrlList_Prepend(Tail(news), seen \cup {Head(news).url}) \o <<Head(news).url>>
    ELSE UrlList_Prepend(Tail(news), seen)

\* lines 226-232 and 247-248: the URLs of the news, each once
RECURSIVE UrlList(_, _)
UrlList(news, seen) ==
    IF news = <<>> THEN <<>>
    ELSE IF Head(news).url \notin seen
    THEN <<Head(news).url>> \o UrlList(Tail(news), seen \cup {Head(news).url})
    ELSE UrlList(Tail(news), seen)

\* lines 235-237 and 264: by_code.get(code, [])
RECURSIVE ByCode(_, _)
ByCode(news, code) ==
    IF news = <<>> THEN <<>>
    ELSE (IF Head(news).stock_code = code THEN <<Head(news)>> ELSE <<>>)
         \o ByCode(Tail(news), code)

\* items[:NEWS_PER_STOCK]
Take(sq, n) == SubSeq(sq, 1, IF Len(sq) < n THEN Len(sq) ELSE n)

\* revenue_map.get(code)
MapGet(map, key) == IF key \in DOMAIN map THEN map[key] ELSE None

BulletLine(it) == <<"- news [">> \o it.title \o <<"](">> \o it.url \o <<")">>

\* lines 256-274: the section of one stock
StockSection(s, news, map) ==
    LET its == ByCode(news, s.code)
    IN  << <<"### ">> \o s.code \o <<" ">> \o s.name,
           <<"- rev ">> \o _format_revenue_summary(MapGet(map, s.code)) >>
        \o (IF its = <<>>
            THEN << <<"- news (none in 7 days)">>, <<>> >>
            ELSE [j \in 1..Len(Take(its, NEWS_PER_STOCK)) |-> BulletLine(its[j])]
                 \o << <<>> >>)

RECURSIVE Sections(_, _, _)
Sections(ss, news, map) ==
    IF ss = <<>> THEN <<>>
    ELSE StockSection(Head(ss), news, map) \o Sections(Tail(ss), news, map)

_render_report(date, news, ss, map) ==
    RStripLines(
        << <<"# TW stocks - ", ToString(StrfDate(date))>>,
           <<>>,
           <<"## Copy URLs for NotebookLM">>,
           <<>>,
           <<"Copy the URLs below and paste them into NotebookLM as sources:">>,
           <<>>,
           <<"~~~">> >>
        \o UrlList(news, {})
        \o << <<"~~~">>, <<>>, <<"---">>, <<>>, <<"## Details">>, <<>> >>
        \o Sections(ss, news, map))

-----------------------------------------------------------------------------
(* _update_index *)

HISTORY_LIMIT == 30

\* the names of the report files, latest first
RECURSIVE SortedDesc(_)
SortedDesc(S) ==
    IF S = {} THEN <<>>
    ELSE LET m == CHOOSE x \in S : \A y \in S : y <= x
         IN  <<m>> \o SortedDesc(S \ {m})

ReportFiles(files) == SortedDesc({d \in DOMAIN files : files[d] # <<>>})

_update_index(latest, files) ==
    LET report_files == Take(ReportFiles(files), HISTORY_LIMIT)
    IN  RStripLines(
            << <<"# TW stock news">>,
               <<>>,
               <<"- latest: [reports/", ToString(latest), ".md]">>,
               <<>>,
               <<"## History">>,
               <<>> >>
            \o [j \in 1..Len(report_files) |->
                  <<"- [", ToString(report_files[j]), ".md]">>])

-----------------------------------------------------------------------------
(* Inputs *)

\* "tai ji dian" 2330 and "lian fa ke" 2454, shortened
StockA == [code |-> <<"2", "3">>, name |-> <<"tai", "ji1">>]

StockB == [code |-> <<"2", "4">>, name |-> <<"lian", "fa1">>]

\* the clock readings of the runs, in Taipei: 22:00 on day 8, 02:00 on day 9
\* (still day 8 in UTC) and 22:00 on day 9
Times == {206, 210, 230}

Item(ttl, link, pubDate) == [title |-> ttl, link |-> link, pubDate |-> pubDate]

\* the stock list: the file is missing, is not JSON, or holds a list
Missing == [state |-> "missing", list |-> <<>>]

Invalid == [state |-> "invalid", list |-> <<>>]

StockList(l) == [state |-> "list", list |-> l]

\* records that lack a field
NoCode == [name |-> <<"lian", "fa1">>]

NoName == [code |-> <<"2", "3">>]

MainConfigs ==
    { Missing, Invalid, StockList(<<>>), StockList(<<StockA>>),
      StockList(<<StockA, StockB>>), StockList(<<StockA, StockA>>),
      StockList(<<StockA, NoCode>>), StockList(<<NoName, StockB>>) }

\* revenue rows: a full row, a row with a padded code and few fields
RowA ==
    [code |-> <<"2", "3">>, month_rev |-> <<"1", "0">>, mom |-> <<"5">>,
     yoy |-> <<" ", "7">>, cum_rev |-> <<"9", "0">>, cum_yoy |-> <<>>]

RowB == [code |-> <<" ", "2", "4">>, cum_rev |-> <<"7">>]

MainDatas == { <<>>, <<RowA, RowB>> }

MaxMainFeed == 2

\* two headlines of the first company whose links lead to the same article
MainItems ==
    { Item(StockA.name \o <<"ying", "shou">>, <<"g1">>, Rfc2822(200, 8, TRUE)),
      Item(StockA.name \o <<"E", "P", "S">>, <<"g2">>, GarbageDate) }

MainFeeds == SeqsUpTo(MainItems, MaxMainFeed)

MaxTitleParts == 3

TitleParts ==
    { <<" ">>, StockA.name, StockB.name, StockA.code, <<"ying", "shou">>,
      <<"E", "P", "S">>, <<"pan">>, <<"K", "xian">>, <<"de">> }

Titles == {Concat(ps) : ps \in SeqsUpTo(TitleParts, MaxTitleParts)}

MaxFeed == 4

\* Feed entries: a fresh headline with padded text and a date without zone,
\* one with an unparseable date, one that names an excluded term, one without
\* a link, one of another company with no date, and one dated exactly a week
\* before 22:00 on day 8.
SampleItems ==
    { Item(<<" ">> \o StockA.name \o <<"ying", "shou", " ">>, <<"g1", " ">>,
           Rfc2822(200, 0, FALSE)),
      Item(StockA.name \o <<"E", "P", "S">>, <<"g2">>, GarbageDate),
      Item(StockA.name \o <<"ying", "shou", "pan">>, <<"g3">>,
           Rfc2822(200, 8, TRUE)),
      Item(StockA.code \o <<"fa", "shuo", "hui">>, Absent, EmptyDate),
      Item(StockB.name \o <<"ying", "shou">>, <<"g4">>, AbsentDate),
      Item(StockA.name \o <<"cai", "bao">>, <<"g5">>, Rfc2822(46, 8, TRUE)) }

FetchTimes == {206, 207}

Feeds == SeqsUpTo(SampleItems, MaxFeed)

-----------------------------------------------------------------------------
(* Variables a specification does not use keep these values. *)

MainIdle ==
    /\ pc = "idle"
    /\ exc = "none"
    /\ config = [state |-> "missing", list |-> <<>>]
    /\ stocks = <<>>
    /\ report_date = None
    /\ data = <<>>
    /\ revenue_map = EmptyMap
    /\ all_news = <<>>
    /\ si = 0
    /\ fetched = <<>>
    /\ netlog = <<>>
    /\ reports = <<>>
    /\ index = <<>>

FetchIdle ==
    /\ feed = <<>>
    /\ idx = 0
    /\ items = <<>>
    /\ cutoff = None
    /\ resolved = {}
    /\ fpc = "idle"

FilterIdle ==
    /\ title = <<>>
    /\ passed = "unset"

-----------------------------------------------------------------------------
(* The filter applied to one title *)

InitFilter ==
    /\ MainIdle /\ FetchIdle
    /\ now = 206
    /\ \E s \in {StockA, StockB} : stock_code = s.code /\ stock_name = s.name
    /\ title \in Titles
    /\ passed = "unset"

\* line 144: the call _title_passes_filters(title)
ApplyFilter ==
    /\ passed = "unset"
    /\ passed' = IF _title_passes_filters(title) THEN "True" ELSE "False"
    /\ UNCHANGED <<mainVars, fetchVars, title>>

NextFilter == ApplyFilter

SpecFilter == InitFilter /\ [][NextFilter]_vars

-----------------------------------------------------------------------------
(* The fetch for one stock, one pass of its loop at a time *)

InitFetch ==
    /\ MainIdle /\ FilterIdle
    /\ now \in FetchTimes
    /\ stock_code = StockA.code /\ stock_name = StockA.name
    /\ feed \in Feeds
    /\ idx = 0
    /\ items = <<>>
    /\ cutoff = None
    /\ resolved = {}
    /\ fpc = "call"

\* lines 128-135: the feed request, its status check and its parse raise, or
\* the loop starts
FetchStart ==
    /\ fpc = "call"
    /\ \E outcome \in {"ok", "error"} :
         IF outcome = "error"
         THEN /\ fpc' = "raised"
              /\ UNCHANGED <<items, cutoff, idx>>
         ELSE /\ fpc' = "loop"
              /\ items' = <<>>
              /\ cutoff' = MinusDays(_now_tpe(now), DAYS_LOOKBACK)
              /\ idx' = 1
    /\ UNCHANGED <<mainVars, filterVars, stock_code, stock_name, feed, resolved>>

\* lines 138-165: one pass of the loop
FetchStep ==
    /\ fpc = "loop"
    /\ idx <= Len(feed)
    /\ \E outcome \in ResolveOutcomes :
         LET r == LoopBody(stock_code, stock_name, cutoff, items, feed[idx],
                           outcome)
         IN  /\ items' = r.items
             /\ resolved' = IF r.resolve THEN resolved \cup {idx} ELSE resolved
             /\ fpc' = IF r.brk THEN "returned" ELSE "loop"
    /\ idx' = idx + 1
    /\ UNCHANGED <<mainVars, filterVars, stock_code, stock_name, feed, cutoff>>

\* line 167: the feed is exhausted
FetchReturn ==
    /\ fpc = "loop"
    /\ idx > Len(feed)
    /\ fpc' = "returned"
    /\ UNCHANGED <<mainVars, filterVars, stock_code, stock_name, feed, idx,
                   items, cutoff, resolved>>

NextFetch == FetchStart \/ FetchStep \/ FetchReturn

SpecFetch == InitFetch /\ [][NextFetch]_vars

-----------------------------------------------------------------------------
(* main *)

Req(kind, arg) == [req |-> kind, arg |-> arg]

\* lines 138-167 at once: the items, and the links resolved on the way
RECURSIVE RunLoop(_, _, _, _, _, _, _)
RunLoop(code, name, cut, fd, outs, i, acc) ==
    IF i > Len(fd) THEN acc
    ELSE LET r    == LoopBody(code, name, cut, acc.items, fd[i], outs[i])
             acc2 == [items |-> r.items,
                      reqs  |-> IF r.resolve
                                THEN Append(acc.reqs,
                                            Req("resolve", _extract_text(fd[i].link)))
                                ELSE acc.reqs]
         IN  IF r.brk THEN acc2
             ELSE RunLoop(code, name, cut, fd, outs, i + 1, acc2)

\* _fetch_google_news_for_stock, given the feed and what each redirect does
_fetch_google_news_for_stock(code, name, clock, fd, outs) ==
    RunLoop(code, name, MinusDays(_now_tpe(clock), DAYS_LOOKBACK), fd, outs, 1,
            [items |-> <<>>, reqs |-> <<>>])

\* main without its dedup
Dedup_None(news, seen) == news

\* lines 333-340
RECURSIVE Dedup(_, _)
Dedup(news, seen) ==
    IF news = <<>> THEN <<>>
    ELSE IF Head(news).url \in seen THEN Dedup(Tail(news), seen)
    ELSE <<Head(news)>> \o Dedup(Tail(news), seen \cup {Head(news).url})

\* the report named by the UTC day
ReportName_Utc(date) == Instant(date) \div HoursPerDay

\* line 306: the name of the report file, without its directory and suffix
ReportName(date) == StrfDate(date)

ReportNames == {ReportName(_now_tpe(t)) : t \in Times}

InitMainWith(configs, times) ==
    /\ FetchIdle /\ FilterIdle
    /\ stock_code = <<>> /\ stock_name = <<>>
    /\ pc = "start"
    /\ exc = "none"
    /\ now \in times
    /\ config \in configs
    /\ stocks = <<>>
    /\ report_date = None
    /\ data = <<>>
    /\ revenue_map = EmptyMap
    /\ all_news = <<>>
    /\ si = 0
    /\ fetched = <<>>
    /\ netlog = <<>>
    /\ reports = [d \in ReportNames |-> <<>>]
    /\ index = <<>>

\* lines 302-307: _load_stocks raises, or the run has its stocks and its date
LoadStocks ==
    /\ pc = "start"
    /\ IF config.state = "missing"
       THEN pc' = "aborted" /\ exc' = "FileNotFoundError"
                /\ UNCHANGED <<stocks, report_date>>
       ELSE IF config.state = "invalid"
       THEN pc' = "aborted" /\ exc' = "JSONDecodeError"
                /\ UNCHANGED <<stocks, report_date>>
       ELSE /\ stocks' = config.list
            /\ report_date' = _now_tpe(now)
            /\ pc' = "revenue"
            /\ exc' = "none"
    /\ UNCHANGED <<now, config, data, revenue_map, all_news, si, fetched, netlog,
                   reports, index, fetchVars, filterVars>>

\* line 318: the revenue request fails, is refused or is not JSON, and the
\* exception leaves main; or revenue_map is built from the rows
FetchRevenue(datas) ==
    /\ pc = "revenue"
    /\ netlog' = Append(netlog, Req("revenue", <<>>))
    /\ \E outcome \in {"ok", "error"} :
         IF outcome = "error"
         THEN /\ pc' = "aborted"
              /\ exc' = "RequestError"
              /\ UNCHANGED <<data, revenue_map, all_news, si>>
         ELSE \E d \in datas :
                /\ data' = d
                /\ revenue_map' = MergeRows(EmptyMap, d)
                /\ all_news' = <<>>
                /\ si' = 1
                /\ pc' = "news"
                /\ exc' = "none"
    /\ UNCHANGED <<now, config, stocks, report_date, fetched, reports, index,
                   fetchVars, filterVars>>

\* the loop over the stocks without its try/except
FetchNewsForStock_Unguarded(feeds) ==
    /\ pc = "news"
    /\ si <= Len(stocks)
    /\ LET s == stocks[si]
       IN  IF "code" \notin DOMAIN s \/ "name" \notin DOMAIN s
           THEN /\ pc' = "aborted"
                /\ exc' = "KeyError"
                /\ UNCHANGED <<all_news, si, fetched, netlog>>
           ELSE /\ \E outcome \in {"ok", "error"} :
                     IF outcome = "error"
                     THEN /\ netlog' = Append(netlog, Req("feed", s.name))
                          /\ fetched' = fetched
                          /\ all_news' = all_news
                          /\ pc' = "aborted" /\ exc' = "RequestError"
                          /\ si' = si
                     ELSE \E fd \in feeds :
                          \E outs \in [1..Len(fd) -> ResolveOutcomes] :
                             LET r == _fetch_google_news_for_stock(
                                          s.code, s.name, now, fd, outs)
                             IN  /\ netlog' = Append(netlog, Req("feed", s.name))
                                              \o r.reqs
                                 /\ fetched' = Append(fetched,
                                       [failed |-> FALSE, news |-> r.items])
                                 /\ all_news' = all_news \o r.items
                                 /\ si' = si + 1
                                 /\ UNCHANGED <<pc, exc>>
    /\ UNCHANGED <<now, config, stocks, report_date, data, revenue_map, reports,
                   index, fetchVars, filterVars>>

\* lines 321-331: one pass of the loop over the stocks
FetchNewsForStock(feeds) ==
    /\ pc = "news"
    /\ si <= Len(stocks)
    /\ LET s == stocks[si]
       IN  IF "code" \notin DOMAIN s \/ "name" \notin DOMAIN s
           THEN /\ pc' = "aborted"
                /\ exc' = "KeyError"
                /\ UNCHANGED <<all_news, si, fetched, netlog>>
           ELSE /\ \E outcome \in {"ok", "error"} :
                     IF outcome = "error"
                     THEN /\ netlog' = Append(netlog, Req("feed", s.name))
                          /\ fetched' = Append(fetched,
                                               [failed |-> TRUE, news |-> <<>>])
                          /\ all_news' = all_news
                     ELSE \E fd \in feeds :
                          \E outs \in [1..Len(fd) -> ResolveOutcomes] :
                             LET r == _fetch_google_news_for_stock(
                                          s.code, s.name, now, fd, outs)
                             IN  /\ netlog' = Append(netlog, Req("feed", s.name))
                                              \o r.reqs
                                 /\ fetched' = Append(fetched,
                                       [failed |-> FALSE, news |-> r.items])
                                 /\ all_news' = all_news \o r.items
                /\ si' = si + 1
                /\ UNCHANGED <<pc, exc>>
    /\ UNCHANGED <<now, config, stocks, report_date, data, revenue_map, reports,
                   index, fetchVars, filterVars>>

\* lines 333-345: dedup, render, write the report, write the index
WriteReport ==
    /\ pc = "news"
    /\ si > Len(stocks)
    /\ reports' = [reports EXCEPT ![ReportName(report_date)] =
                      _render_report(report_date, Dedup(all_news, {}), stocks,
                                     revenue_map)]
    /\ index' = _update_index(ReportName(report_date), reports')
    /\ pc' = "done"
    /\ UNCHANGED <<exc, now, config, stocks, report_date, data, revenue_map,
                   all_news, si, fetched, netlog, fetchVars, filterVars>>

InitMain == InitMainWith(MainConfigs, {206})

NextMain ==
    \/ LoadStocks
    \/ FetchRevenue(MainDatas)
    \/ FetchNewsForStock(MainFeeds)
    \/ WriteReport

SpecMain == InitMain /\ [][NextMain]_vars

MaxLoopFeed == 1

LoopFeeds == SeqsUpTo(MainItems, MaxLoopFeed)

LoopDatas == { <<>>, <<RowA>> }

NextLoop ==
    \/ LoadStocks
    \/ FetchRevenue(LoopDatas)
    \/ FetchNewsForStock(LoopFeeds)
    \/ WriteReport

\* main runs to its end unless it raises
FairLoop == InitMain /\ [][NextLoop]_vars /\ WF_vars(NextLoop)

-----------------------------------------------------------------------------
(* Runs with many revenue rows, and runs that follow one another *)

RowA2 == [code |-> <<"2", "3", " ">>, month_rev |-> <<"2", "0">>]

RowBlank == [code |-> <<" ">>, month_rev |-> <<"3", "0">>]

RowNoCode == [month_rev |-> <<"4", "0">>]

MaxRows == 3

RevenueDatas == SeqsUpTo({RowA, RowA2, RowB, RowBlank, RowNoCode}, MaxRows)

InitRevenue == InitMainWith({StockList(<<StockA>>)}, {206})

NextRevenue ==
    \/ LoadStocks
    \/ FetchRevenue(RevenueDatas)
    \/ FetchNewsForStock({<<>>})
    \/ WriteReport

SpecRevenue == InitRevenue /\ [][NextRevenue]_vars

\* the script is started again, at the same hour or later
NewRun ==
    /\ pc \in {"done", "aborted"}
    /\ \E t \in Times : t >= now /\ now' = t
    /\ pc' = "start"
    /\ exc' = "none"
    /\ stocks' = <<>>
    /\ report_date' = None
    /\ data' = <<>>
    /\ revenue_map' = EmptyMap
    /\ all_news' = <<>>
    /\ si' = 0
    /\ fetched' = <<>>
    /\ netlog' = <<>>
    /\ UNCHANGED <<config, reports, index, fetchVars, filterVars>>

RunDatas == LoopDatas

RunFeeds == LoopFeeds

InitRuns == InitMainWith({StockList(<<StockA>>)}, {206})

NextRuns ==
    \/ LoadStocks
    \/ FetchRevenue(RunDatas)
    \/ FetchNewsForStock(RunFeeds)
    \/ WriteReport
    \/ NewRun

SpecRuns == InitRuns /\ [][NextRuns]_vars

-----------------------------------------------------------------------------
(* Claims about the filter and the fetch *)

HasInclude(t) == \E i \in 1..Len(INCLUDE_KEYWORDS) : Contains(INCLUDE_KEYWORDS[i], t)

HasExclude(t) == \E i \in 1..Len(EXCLUDE_KEYWORDS) : Contains(EXCLUDE_KEYWORDS[i], t)

\* C1: the filter accepts a title if and only if the title is non-empty
\* after trimming, contains an include keyword, contains no exclude keyword,
\* and contains the stock's name or the stock's code.
C1_FilterChecksIdentity ==
    passed # "unset" =>
        ( passed = "True"
          <=> /\ Strip(title) # <<>>
              /\ HasInclude(title)
              /\ ~HasExclude(title)
              /\ (Contains(stock_name, title) \/ Contains(stock_code, title)) )

\* a feed entry qualifies: it passes the keyword filter, its date is not
\* older than the cutoff, and it has a link
Stale(item) ==
    /\ item.pubDate.kind = "date"
    /\ (IF item.pubDate.aware
        THEN item.pubDate.wall - item.pubDate.off
        ELSE item.pubDate.wall) < now - DAYS_LOOKBACK * HoursPerDay

Undated(item) == item.pubDate.kind \in {"absent", "empty", "garbage"}

HasLink(item) == item.link # Absent /\ Strip(item.link) # <<>>

Qualifies(item) ==
    /\ _title_passes_filters(item.title)
    /\ ~Stale(item)
    /\ HasLink(item)

RECURSIVE QualifyingFrom(_, _)
QualifyingFrom(fd, i) ==
    IF i > Len(fd) THEN <<>>
    ELSE (IF Qualifies(fd[i]) THEN <<i>> ELSE <<>>) \o QualifyingFrom(fd, i + 1)

\* the positions of the first NEWS_PER_STOCK qualifying entries of the feed
KeptPositions ==
    LET q == QualifyingFrom(feed, 1)
    IN  SubSeq(q, 1, IF Len(q) < NEWS_PER_STOCK THEN Len(q) ELSE NEWS_PER_STOCK)

ComesFrom(it, item) ==
    /\ it.title = Strip(item.title)
    /\ it.url \in {Strip(item.link), RedirectTarget(Strip(item.link))}
    /\ it.stock_code = stock_code
    /\ it.stock_name = stock_name

\* C2: the fetch returns exactly the first min(NEWS_PER_STOCK, q) qualifying
\* entries of the feed, in feed order; it never holds more than
\* NEWS_PER_STOCK items; and once the NEWS_PER_STOCK-th qualifying entry is
\* taken no later entry is processed or has its link resolved.
C2_FirstQualifyingInOrder ==
    /\ Len(items) <= NEWS_PER_STOCK
    /\ fpc = "returned" =>
         LET kept == KeptPositions
         IN  /\ Len(items) = Len(kept)
             /\ \A j \in 1..Len(kept) : ComesFrom(items[j], feed[kept[j]])
             /\ Len(kept) = NEWS_PER_STOCK =>
                  /\ idx = kept[NEWS_PER_STOCK] + 1
                  /\ \A i \in resolved : i <= kept[NEWS_PER_STOCK]

\* the fetch stopped early: NEWS_PER_STOCK items taken and a qualifying
\* entry of the feed left unread
C2_Witness ==
    /\ fpc = "returned"
    /\ Len(items) = NEWS_PER_STOCK
    /\ \E i \in idx..Len(feed) : Qualifies(feed[i])

\* C3: no item of the result was published before the cutoff; an entry whose
\* date is missing, empty or unparseable, and that passes the keyword filter
\* and has a link, is in the result if the loop reached it, with no
\* publication date; and the fetch raises only at the feed request, never
\* while it reads the entries.
C3_RecencyFilter ==
    /\ \A j \in 1..Len(items) :
         \/ items[j].published = None
         \/ items[j].published.wall - items[j].published.off
              >= now - DAYS_LOOKBACK * HoursPerDay
    /\ fpc = "returned" =>
         \A i \in 1..(idx - 1) :
            /\ Stale(feed[i]) =>
                 ~\E j \in 1..Len(items) : items[j].title = Strip(feed[i].title)
            /\ (Undated(feed[i]) /\ _title_passes_filters(feed[i].title)
                  /\ HasLink(feed[i])) =>
                 \E j \in 1..Len(items) :
                    /\ ComesFrom(items[j], feed[i])
                    /\ items[j].published = None
    /\ fpc = "raised" => idx = 0 /\ items = <<>>

\* the fetch returned after reading a stale entry that passed the keyword
\* filter, an entry with an unparseable date and an entry with no date
C3_Witness ==
    /\ fpc = "returned"
    /\ \E i \in 1..(idx - 1) :
         Stale(feed[i]) /\ _title_passes_filters(feed[i].title)
    /\ \E i \in 1..(idx - 1) : feed[i].pubDate.kind = "garbage"
    /\ \E i \in 1..(idx - 1) : feed[i].pubDate.kind = "absent"
    /\ \E j \in 1..Len(items) : items[j].published = None

-----------------------------------------------------------------------------
(* Reading a report back *)

FenceLines(content) == {i \in 1..Len(content) : content[i] = <<"~~~">>}

Min(S) == CHOOSE x \in S : \A y \in S : x <= y

Max(S) == CHOOSE x \in S : \A y \in S : y <= x

\* the lines between the two fences of a report
UrlBlock(content) ==
    LET f == FenceLines(content)
    IN  SubSeq(content, Min(f) + 1, Max(f) - 1)

IsHeading(line) == line # <<>> /\ Head(line) = "### "

HeadingLines(content) == {i \in 1..Len(content) : IsHeading(content[i])}

\* the position of the k-th stock heading of a report
HeadingAt(content, k) ==
    CHOOSE i \in HeadingLines(content) :
        Cardinality({j \in HeadingLines(content) : j <= i}) = k

\* the lines of the k-th stock section, without its heading
SectionBody(content, k) ==
    LET h    == HeadingAt(content, k)
        next == {j \in HeadingLines(content) : j > h}
        last == IF next = {} THEN Len(content) ELSE Min(next) - 1
    IN  SubSeq(content, h + 1, last)

RECURSIVE Filter(_, _)
Filter(lines, first) ==
    IF lines = <<>> THEN <<>>
    ELSE (IF Head(lines) # <<>> /\ Head(Head(lines)) = first
          THEN <<Head(lines)>> ELSE <<>>) \o Filter(Tail(lines), first)

Bullets(content, k) == Filter(SectionBody(content, k), "- news [")

HasNoNewsLine(content, k) ==
    \E i \in 1..Len(SectionBody(content, k)) :
        SectionBody(content, k)[i] = <<"- news (none in 7 days)">>

\* the day, in Taipei, of the run in progress
Today == (now + TZ_TAIPEI) \div HoursPerDay

WellFormed(l) ==
    \A k \in 1..Len(l) : "code" \in DOMAIN l[k] /\ "name" \in DOMAIN l[k]

DistinctCodes(l) ==
    \A k1, k2 \in 1..Len(l) : k1 # k2 => l[k1].code # l[k2].code

\* the increasing enumeration of a set of positions
RECURSIVE Ascending(_)
Ascending(S) ==
    IF S = {} THEN <<>> ELSE <<Min(S)>> \o Ascending(S \ {Min(S)})

-----------------------------------------------------------------------------
(* Claims about main and the report *)

\* C4: the URL list of the report holds each distinct URL of the news
\* accumulated over all stocks exactly once, in the order of first appearance.
C4_UrlListDeduplicated ==
    pc = "done" =>
        LET block == UrlBlock(reports[Today])
            first == Ascending({i \in 1..Len(all_news) :
                         \A j \in 1..(i - 1) : all_news[j].url # all_news[i].url})
        IN  /\ Len(block) = Len(first)
            /\ \A n \in 1..Len(first) : block[n] = all_news[first[n]].url
            /\ \A m, n \in 1..Len(block) : m # n => block[m] # block[n]
            /\ Range(block) = {all_news[i].url : i \in 1..Len(all_news)}

\* a report written from news in which a URL repeats within one stock and
\* across two stocks, with a second URL after the repeated one
C4_Witness ==
    /\ pc = "done"
    /\ \E i, j \in 1..Len(all_news) :
         /\ i < j /\ all_news[i].url = all_news[j].url
         /\ all_news[i].stock_code = all_news[j].stock_code
    /\ \E i, j \in 1..Len(all_news) :
         /\ i < j /\ all_news[i].url = all_news[j].url
         /\ all_news[i].stock_code # all_news[j].stock_code
    /\ \E i, j \in 1..Len(all_news) :
         /\ i + 1 < j /\ all_news[i].url = all_news[i + 1].url
         /\ all_news[j].url # all_news[i].url

\* the feed requests of the run, in order
RECURSIVE FeedRequests(_)
FeedRequests(log) ==
    IF log = <<>> THEN <<>>
    ELSE (IF Head(log).req = "feed" THEN <<Head(log).arg>> ELSE <<>>)
         \o FeedRequests(Tail(log))

\* the items are those of one stock, no more than the fetch may return
NewsOf(news, s) ==
    /\ Len(news) <= NEWS_PER_STOCK
    /\ \A j \in 1..Len(news) :
          news[j].stock_code = s.code /\ news[j].stock_name = s.name

\* the stock list is well formed and the loop over the stocks was entered
InLoop == config.state = "list" /\ WellFormed(config.list) /\ si >= 1

C5_Attempts ==
    InLoop =>
      /\ pc # "aborted"
      /\ Len(fetched) = si - 1
      /\ FeedRequests(netlog) = [k \in 1..Len(fetched) |-> stocks[k].name]
      /\ all_news = Concat([k \in 1..Len(fetched) |-> fetched[k].news])
      /\ \A k \in 1..Len(fetched) :
            /\ fetched[k].failed => fetched[k].news = <<>>
            /\ NewsOf(fetched[k].news, stocks[k])
      /\ pc = "done" =>
            /\ Len(fetched) = Len(stocks)
            /\ reports[Today] # <<>>
            /\ index # <<>>

\* C5: in a run that reaches the loop over a well-formed stock list, every
\* stock is attempted in list order whichever fetches fail, a failed stock
\* contributes no news, the news gathered is the news the other stocks'
\* fetches returned, each under its own stock, a later failure leaves the
\* news already gathered as it was, and the run ends with the report and
\* the index written.
C5_FailureIsolation ==
    /\ []C5_Attempts
    /\ [][InLoop => SubSeq(all_news', 1, Len(all_news)) = all_news]_vars
    /\ (InLoop ~> pc = "done")

\* a run that ended after the first stock's fetch failed and the second
\* stock's fetch returned news
C5_Witness ==
    /\ pc = "done"
    /\ Len(fetched) = 2
    /\ fetched[1].failed
    /\ ~fetched[2].failed /\ fetched[2].news # <<>>

\* C6: a failure of the revenue source is caught and treated as no rows; it
\* does not abort the run.
C6_RevenueFailureCaught == ~(pc = "aborted" /\ exc = "RequestError")

\* C7 as stated: once the report of a date exists, no step changes it.
C7_WrittenOnce ==
    [][\A d \in ReportNames : reports[d] # <<>> => reports'[d] = reports[d]]_vars

\* C7 as amended: a report file changes only in the last step of a run, and
\* only the file of that run's own date; the files of all other dates keep
\* their content.
C7_OnlyOwnDateWritten ==
    [][\A d \in ReportNames :
         reports'[d] # reports[d] =>
            /\ pc = "news" /\ pc' = "done"
            /\ d = Today
            /\ reports'[d] # <<>>]_vars

\* a run has ended on the second day while the report of the first day is
\* on disk
C7_Witness ==
    /\ pc = "done"
    /\ \A d \in ReportNames : reports[d] # <<>>
    /\ \E d \in ReportNames : d # Today

\* C8: a run aborted by a config error (the stock list missing, not JSON, or
\* holding a record without its code or name) has issued no HTTP request and
\* written neither a report nor the index.
C8_ConfigErrorBeforeNetwork ==
    (pc = "aborted" /\ exc \in {"FileNotFoundError", "JSONDecodeError", "KeyError"})
        => /\ netlog = <<>>
           /\ \A d \in ReportNames : reports[d] = <<>>
           /\ index = <<>>

RowCode(row) == Strip(Get(row, "code"))

SeenEarlier(k, j) ==
    \/ \E k2 \in 1..(k - 1) : \E j2 \in 1..Len(fetched[k2].news) :
          fetched[k2].news[j2].url = fetched[k].news[j].url
    \/ \E j2 \in 1..(j - 1) :
          fetched[k].news[j2].url = fetched[k].news[j].url

\* the items of stock k whose URL comes up for the first time
FirstSeen(k) ==
    LET pos == Ascending({j \in 1..Len(fetched[k].news) : ~SeenEarlier(k, j)})
    IN  [n \in 1..Len(pos) |-> fetched[k].news[pos[n]]]

ExpectedBullet(it) == <<"- news [">> \o it.title \o <<"](">> \o it.url \o <<")">>

Rendered == pc = "done" /\ DistinctCodes(stocks)

\* no fetch returned one URL twice
NoRepeatWithinStock ==
    \A k \in 1..Len(fetched) : \A i, j \in 1..Len(fetched[k].news) :
        i # j => fetched[k].news[i].url # fetched[k].news[j].url

\* C10 as stated, for the runs in which no single fetch returns a URL twice:
\* each stock's section holds one bullet per item its fetch returned, and the
\* 'no news' line only if its fetch returned nothing.
C10_EveryItemRendered ==
    (Rendered /\ NoRepeatWithinStock) =>
      \A k \in 1..Len(stocks) :
         /\ Bullets(reports[Today], k)
              = [j \in 1..Len(fetched[k].news) |-> ExpectedBullet(fetched[k].news[j])]
         /\ HasNoNewsLine(reports[Today], k) => fetched[k].news = <<>>

\* C10 as amended: with distinct stock codes, each stock's section is headed
\* by its code and name and holds one bullet, in fetch order, per item of its
\* fetch whose URL was not returned earlier in the run (by an earlier stock
\* or earlier for the same stock), and the 'no news' line exactly when there
\* is no such item.
C10_FirstSeenItemsRendered ==
    Rendered =>
      /\ Cardinality(HeadingLines(reports[Today])) = Len(stocks)
      /\ \A k \in 1..Len(stocks) :
           /\ reports[Today][HeadingAt(reports[Today], k)]
                = <<"### ">> \o stocks[k].code \o <<" ">> \o stocks[k].name
           /\ Bullets(reports[Today], k)
                = [j \in 1..Len(FirstSeen(k)) |-> ExpectedBullet(FirstSeen(k)[j])]
           /\ HasNoNewsLine(reports[Today], k) <=> FirstSeen(k) = <<>>

\* a report in which the second stock's fetch returned only an article that
\* the first stock's fetch had returned, next to a stock with two bullets
C10_Witness ==
    /\ Rendered
    /\ Len(stocks) = 2
    /\ Len(FirstSeen(1)) = 2
    /\ fetched[2].news # <<>>
    /\ FirstSeen(2) = <<>>

====
